---------------------------- MODULE Spec2Model ----------------------------
(***************************************************************************)
(* Providers API: the ingestion job (app/etl.py), the zip geocoders and    *)
(* the radius test (app/geocoding.py) and the GET /providers handler       *)
(* (app/main.py), as state machines.                                       *)
(*                                                                         *)
(* Values.  A pandas cell, a Python float, a Decimal and None are all      *)
(* written as records [k, v]: k = "num" (v is the number), "nan" (a float  *)
(* NaN, what pandas gives for an empty cell), "txt" (a non-numeric text),  *)
(* "none" (Python None) and "raise" (the conversion raised).  Text that    *)
(* the code pads, strips or parses (zip codes) is a sequence of one-char   *)
(* strings.                                                                 *)
(***************************************************************************)
EXTENDS Integers, Sequences, FiniteSets, TLC

VARIABLES
    file,                  \* the provider CSV on disk: [exists, firstOk, rows]
    zipFile,               \* USZipsWithLatLon_20231227.csv: [exists, rows]
    zip_data,              \* geocoding._zip_data: [loaded, rows]
    stored,                \* the committed rows of table providers
    session,               \* objects db.add()ed and not yet committed
    pc,                    \* where load_csv_data stands
    run,                   \* number of load_csv_data calls started
    attempt,               \* the read_csv method being tried (1..4)
    df,                    \* the DataFrame rows (<<>> until read)
    zip_code_coordinates,  \* etl.py's dict, as a set of [zip, lat, lon]
    idx,                   \* rows iterated so far by the row loop
    processed_count,
    error_count,
    everFailed,            \* a storage-layer exception was raised in some run
    sessionOpened,         \* SessionLocal() was called in this run
    deleteIssued,          \* db.query(Provider).delete() was called in this run
    stored0,               \* the stored set when this run started
    failedAt,              \* idx at the first storage exception of this run, or -1
    last,                  \* what the latest row-loop iteration did
    count1,                \* Cardinality(stored) when run 1 returned, or -1
    req,                   \* the latest GET /providers request: [drg, zip, radius_km]
    geo,                   \* the latest geocode_zip_code_nominatim call and its result
    resp,                  \* the latest HTTP response: [status, detail, body]
    geoCalls,              \* the location strings sent to Nominatim, in order
    radiusLog,             \* the latest direct is_within_radius call and its result
    tried,                 \* the read_csv methods called in this run, in order
    rank,                  \* the latest get_relevant_providers call and its result
    seen,                  \* what the latest served request found the ingestion doing
    embedding_cache,       \* OpenAIService.embedding_cache: key -> embedding or NoEntry
    cache_lock,            \* OpenAIService.cache_lock: the holding thread, or 0
    thr,                   \* each thread's get_provider_embedding call: [pc, key, val]
    cacheLog               \* per key: get_embedding calls and cache insertions so far

etlVars == <<file, zipFile, zip_data, stored, session, pc, run, attempt, df,
             zip_code_coordinates, idx, processed_count, error_count, everFailed,
             sessionOpened, deleteIssued, stored0, failedAt, last, count1, tried>>

cacheVars == <<embedding_cache, cache_lock, thr, cacheLog>>

queryVars == <<req, geo, resp, geoCalls, radiusLog, rank, seen, cacheVars>>

vars == <<etlVars, queryVars>>

---------------------------------------------------------------------------
(* Bounds of the model *)

MaxRows == 3
MaxRuns == 2

(* etl.py commits when processed_count % 1000 == 0; the model scales the   *)
(* batch to 2 records so that a batch commit happens within MaxRows rows.  *)
BatchSize == 2

\* Nominatim calls per behaviour of the query path
MaxGeoCalls == 2

\* requests served per behaviour of the running server
MaxServed == 2

\* requests served per behaviour that also holds ingestion runs
MaxServedBesideRun == 1

---------------------------------------------------------------------------
(* Python values *)

None == [k |-> "none", v |-> 0]
NaN == [k |-> "nan", v |-> 0]
Txt == [k |-> "txt", v |-> 0]
Raise == [k |-> "raise", v |-> 0]
Num(n) == [k |-> "num", v |-> n]

\* bool(x) of a float-or-None: None and 0.0 are falsy, NaN is truthy
Truthy(x) == x.k = "nan" \/ (x.k = "num" /\ x.v # 0)

Digits == {"0", "1", "2", "3", "4", "5", "6", "7", "8", "9"}

DigitVal(c) ==
    CASE c = "0" -> 0 [] c = "1" -> 1 [] c = "2" -> 2 [] c = "3" -> 3
      [] c = "4" -> 4 [] c = "5" -> 5 [] c = "6" -> 6 [] c = "7" -> 7
      [] c = "8" -> 8 [] OTHER -> 9

\* str.zfill(5): pad on the left with "0" up to 5 characters
RECURSIVE Zfill(_)
Zfill(s) == IF Len(s) >= 5 THEN s ELSE Zfill(<<"0">> \o s)

\* str.strip(): drop the blanks at both ends
RECURSIVE Strip(_)
Strip(s) ==
    IF s = <<>> THEN s
    ELSE IF Head(s) = " " THEN Strip(Tail(s))
    ELSE IF s[Len(s)] = " " THEN Strip(SubSeq(s, 1, Len(s) - 1))
    ELSE s

RECURSIVE DigitsValue(_, _)
DigitsValue(s, acc) ==
    IF s = <<>> THEN acc ELSE DigitsValue(Tail(s), 10 * acc + DigitVal(Head(s)))

\* int(s) of a str: blanks around are allowed, then digits only
IntOfStr(s) ==
    LET t == Strip(s) IN
    IF t # <<>> /\ \A i \in 1..Len(t) : t[i] \in Digits
    THEN Num(DigitsValue(t, 0)) ELSE Raise

\* int(cell): a number is truncated, NaN and a non-numeric text raise
IntOfCell(c) == IF c.k = "num" THEN c ELSE Raise

\* Decimal(str(cell)): "nan" is a valid Decimal literal, a text is not
DecimalOfCell(c) == IF c.k \in {"num", "nan"} THEN c ELSE Raise

\* int(float(cell)): float() of a text raises, int() of NaN raises
IntOfFloatCell(c) == IF c.k = "num" THEN c ELSE Raise

\* float(cell) of the zip reference table: NaN stays NaN, a text raises
FloatOfCell(c) == IF c.k \in {"num", "nan"} THEN c ELSE Raise


---------------------------------------------------------------------------
(* app/geocoding.py: the offline resolver *)

\* load_zip_data(): the table read once; a missing or unreadable file gives
\* an empty DataFrame
LoadedZipData(zf) == [loaded |-> TRUE, rows |-> IF zf.exists THEN zf.rows ELSE <<>>]

\* geocode_zip_code(zip_code) on the loaded table: the first row whose
\* "postal code" equals the zero-filled zip; any exception gives (None, None)
GeocodeZipCode(table, zip_code) ==
    LET zip_code_str == Zfill(zip_code)
        matches == SelectSeq(table, LAMBDA e : e.postal = zip_code_str)
    IN  IF table = <<>> THEN <<None, None>>
        ELSE IF Len(matches) > 0
        THEN LET lat == FloatOfCell(matches[1].latitude)
                 lng == FloatOfCell(matches[1].longitude)
             IN  IF lat = Raise \/ lng = Raise THEN <<None, None>>
                 ELSE <<lat, lng>>
        ELSE <<None, None>>

---------------------------------------------------------------------------
(* app/etl.py: load_csv_data *)

\* the test that admits a geocoded zip to the dict: if latitude and longitude
KeepCoordinates(lat, lng) == Truthy(lat) /\ Truthy(lng)

\* df['Rndrng_Prvdr_Zip5'].astype(str).str.zfill(5).unique()
UniqueZipCodes(rows) == {Zfill(rows[i].zip) : i \in 1..Len(rows)}

\* Mutant of ZipCodeCoordinates: each coordinate kept on its own when truthy
\* (if latitude or longitude: ... = (latitude or None, longitude or None))
ZipCodeCoordinatesPerField(rows, table) ==
    {[zip |-> z,
      lat |-> IF Truthy(GeocodeZipCode(table, z)[1]) THEN GeocodeZipCode(table, z)[1] ELSE None,
      lon |-> IF Truthy(GeocodeZipCode(table, z)[2]) THEN GeocodeZipCode(table, z)[2] ELSE None] :
        z \in {u \in UniqueZipCodes(rows) :
                 Truthy(GeocodeZipCode(table, u)[1]) \/ Truthy(GeocodeZipCode(table, u)[2])}}

\* the dict zip_code_coordinates built by the geocoding loop
ZipCodeCoordinates(rows, table) ==
    {[zip |-> z, lat |-> GeocodeZipCode(table, z)[1], lon |-> GeocodeZipCode(table, z)[2]] :
        z \in {u \in UniqueZipCodes(rows) :
                 KeepCoordinates(GeocodeZipCode(table, u)[1], GeocodeZipCode(table, u)[2])}}

\* Mutant of CoordinatesGet: zip_code_coordinates[zip_code_str], which raises
\* KeyError for a zip that is not in the dict
CoordinatesGetKeyError(zmap, zip_code_str) ==
    IF \E e \in zmap : e.zip = zip_code_str
    THEN LET e == CHOOSE x \in zmap : x.zip = zip_code_str IN [lat |-> e.lat, lon |-> e.lon]
    ELSE Raise

\* zip_code_coordinates.get(zip_code_str, (None, None))
CoordinatesGet(zmap, zip_code_str) ==
    IF \E e \in zmap : e.zip = zip_code_str
    THEN LET e == CHOOSE x \in zmap : x.zip = zip_code_str IN [lat |-> e.lat, lon |-> e.lon]
    ELSE [lat |-> None, lon |-> None]

\* The body of the row loop up to db.add: which except clause the row ends
\* in ("zip", "drg", "money", or "other" for the row's "except Exception",
\* which catches whatever else raises), or "ok" with the Provider it builds.
RowOutcome(row, r, i, zmap) ==
    LET zip_code_raw == Strip(row.zip)
        zip_code_str == Zfill(zip_code_raw)
        zip_code == IntOfStr(zip_code_raw)
        ms_drg_definition == IntOfCell(row.drg)
        avg_covered == DecimalOfCell(row.cov)
        avg_total == DecimalOfCell(row.tot)
        avg_medicare == DecimalOfCell(row.med)
        coords == CoordinatesGet(zmap, zip_code_str)
        total_discharges == IntOfFloatCell(row.dis)
    IN  IF zip_code = Raise THEN [kind |-> "zip", provider |-> {}]
        ELSE IF ms_drg_definition = Raise THEN [kind |-> "drg", provider |-> {}]
        ELSE IF Raise \in {avg_covered, avg_total, avg_medicare}
             THEN [kind |-> "money", provider |-> {}]
        ELSE IF coords = Raise \/ total_discharges = Raise
             THEN [kind |-> "other", provider |-> {}]
        ELSE [kind |-> "ok",
              provider |-> {[run |-> r, row |-> i,
                             provider_zip_code |-> zip_code.v,
                             ms_drg_definition |-> ms_drg_definition.v,
                             total_discharges |-> total_discharges.v,
                             average_covered_charges |-> avg_covered,
                             average_total_payments |-> avg_total,
                             average_medicare_payments |-> avg_medicare,
                             latitude |-> coords.lat,
                             longitude |-> coords.lon]}]

\* processed_count % 1000 == 0 (the batch scaled to BatchSize)
BatchDue(n) == n % BatchSize = 0

NoLast == [idx |-> 0, kind |-> "none", dErr |-> 0, dProc |-> 0, added |-> {}, commit |-> "none"]

---------------------------------------------------------------------------
(* The inputs: sample files and the rows stored before the first run *)

Z10001 == <<"1", "0", "0", "0", "1">>
Z00501 == <<"0", "0", "5", "0", "1">>
Z501 == <<"5", "0", "1">>
ZNan == <<"n", "a", "n">>

GoodRow == [zip |-> Z10001, drg |-> Num(470), cov |-> Num(100), tot |-> Num(90),
            med |-> Num(80), dis |-> Num(5)]

RowPool ==
    { GoodRow,
      [GoodRow EXCEPT !.zip = Z501],
      [GoodRow EXCEPT !.zip = ZNan],
      [GoodRow EXCEPT !.drg = Txt],
      [GoodRow EXCEPT !.cov = Txt],
      [GoodRow EXCEPT !.tot = NaN],
      [GoodRow EXCEPT !.med = Txt],
      [GoodRow EXCEPT !.dis = NaN] }

RECURSIVE SeqsUpTo(_, _)
SeqsUpTo(S, n) ==
    IF n = 0 THEN {<<>>}
    ELSE LET shorter == SeqsUpTo(S, n - 1)
         IN  shorter \cup {Append(q, x) : q \in shorter, x \in S}

\* firstOk: the first of the four read_csv calls that does not raise (5: none).
\* The fourth call passes error_bad_lines and warn_bad_lines beside
\* on_bad_lines, which read_csv refuses whatever the file holds, so no file
\* has firstOk = 4.
Files ==
    {[exists |-> FALSE, firstOk |-> 5, rows |-> <<>>],
     [exists |-> TRUE, firstOk |-> 5, rows |-> <<>>]}
    \cup {[exists |-> TRUE, firstOk |-> 1, rows |-> r] : r \in SeqsUpTo(RowPool, MaxRows)}
    \cup {[exists |-> TRUE, firstOk |-> k, rows |-> <<x>>] : k \in 2..3, x \in RowPool}

ZipFiles ==
    {[exists |-> FALSE, rows |-> <<>>],
     [exists |-> TRUE,
      rows |-> <<[postal |-> Z10001, latitude |-> Num(40), longitude |-> Num(-74)],
                 [postal |-> Z10001, latitude |-> Num(41), longitude |-> Num(-74)]>>],
     [exists |-> TRUE,
      rows |-> <<[postal |-> Z10001, latitude |-> Num(0), longitude |-> Num(-74)],
                 [postal |-> Z00501, latitude |-> Num(40), longitude |-> NaN]>>],
     [exists |-> TRUE,
      rows |-> <<[postal |-> Z10001, latitude |-> Num(40), longitude |-> Txt],
                 [postal |-> Z00501, latitude |-> Num(41), longitude |-> Num(-74)]>>]}

\* rows left by an earlier process (run 0)
OldProvider(i, lat, lon) ==
    [run |-> 0, row |-> i, provider_zip_code |-> 10001, ms_drg_definition |-> 470,
     total_discharges |-> 5, average_covered_charges |-> Num(100),
     average_total_payments |-> Num(90), average_medicare_payments |-> Num(80),
     latitude |-> lat, longitude |-> lon]

StoredPool == {{}, {OldProvider(1, Num(40), Num(-74)), OldProvider(2, None, None)}}

\* the query path before any request
NoReq == [drg |-> None, zip |-> None, radius_km |-> None]
NoOutcome == [exc |-> "none", found |-> FALSE, latitude |-> 0, longitude |-> 0]
NoGeo == [called |-> FALSE, zip |-> <<>>, o |-> NoOutcome,
          raised |-> FALSE, lat |-> None, lon |-> None]
NoResp == [status |-> 0, detail |-> None, body |-> <<>>]
NoRadius == [called |-> FALSE, lat1 |-> None, lon1 |-> None, lat2 |-> None, lon2 |-> None,
             radius_km |-> None, distance |-> None, result |-> FALSE]

\* the relevance ranker before any call
NoRank == [called |-> FALSE, query |-> <<>>, limit |-> 0, order |-> "asc", o |-> NoOutcome,
           drg_filter |-> None, zip_filter |-> None, radius_km |-> None,
           geocoded |-> FALSE, filtered |-> FALSE, scored |-> {}, caught |-> FALSE,
           raised |-> FALSE, result |-> <<>>]

\* no request served yet
NoSeen == [n |-> 0, run |-> 0, pc |-> "idle", handler |-> "none"]

\* OpenAIService.__init__: an empty cache, a free lock
MaxThreads == 2
MaxCacheCalls == 2
Threads == 1..MaxThreads
CacheKeys == {"text1", "text2"}
NoEntry == [k |-> "absent", v |-> 0]
IdleThread == [pc |-> "idle", key |-> "none", val |-> NoEntry, calls |-> 0]

CacheIdle ==
    /\ embedding_cache = [k \in CacheKeys |-> NoEntry]
    /\ cache_lock = 0
    /\ thr = [t \in Threads |-> IdleThread]
    /\ cacheLog = [k \in CacheKeys |-> [lookups |-> 0, writes |-> 0, overwritten |-> FALSE]]

QueryIdle ==
    /\ req = NoReq
    /\ geo = NoGeo
    /\ resp = NoResp
    /\ geoCalls = <<>>
    /\ radiusLog = NoRadius
    /\ rank = NoRank
    /\ seen = NoSeen
    /\ CacheIdle

---------------------------------------------------------------------------
(* load_csv_data, step by step *)

InitEtl ==
    /\ QueryIdle
    /\ file \in Files
    /\ zipFile \in ZipFiles
    /\ zip_data = [loaded |-> FALSE, rows |-> <<>>]
    /\ stored \in StoredPool
    /\ session = {}
    /\ pc = "idle"
    /\ run = 0
    /\ attempt = 1
    /\ df = <<>>
    /\ zip_code_coordinates = {}
    /\ idx = 0
    /\ processed_count = 0
    /\ error_count = 0
    /\ everFailed = FALSE
    /\ sessionOpened = FALSE
    /\ deleteIssued = FALSE
    /\ stored0 = stored
    /\ failedAt = -1
    /\ last = NoLast
    /\ count1 = -1
    /\ tried = <<>>

\* load_csv_data returns (after db.close() when a session was opened)
Return(st) ==
    /\ pc' = "idle"
    /\ session' = {}
    /\ count1' = IF run = 1 THEN Cardinality(st) ELSE count1

\* the call, and the os.path.exists test
StartRun ==
    /\ pc = "idle"
    /\ run < MaxRuns
    /\ run' = run + 1
    /\ attempt' = 1
    /\ tried' = <<>>
    /\ df' = <<>>
    /\ zip_code_coordinates' = {}
    /\ idx' = 0
    /\ processed_count' = 0
    /\ error_count' = 0
    /\ sessionOpened' = FALSE
    /\ deleteIssued' = FALSE
    /\ stored0' = stored
    /\ failedAt' = -1
    /\ last' = NoLast
    /\ session' = {}
    /\ pc' = IF file.exists THEN "read" ELSE "idle"
    /\ count1' = IF ~file.exists /\ run = 0 THEN Cardinality(stored) ELSE count1
    /\ UNCHANGED <<file, zipFile, zip_data, stored, everFailed>>
    /\ UNCHANGED queryVars

\* Mutant of ReadCsv: the last except clause does not return, and the run
\* goes on with an empty table
ReadCsvNoReturn ==
    /\ pc = "read"
    /\ tried' = Append(tried, attempt)
    /\ IF attempt = file.firstOk
       THEN /\ df' = file.rows
            /\ pc' = "geocode"
            /\ UNCHANGED <<attempt, session, count1>>
       ELSE IF attempt < 4
       THEN /\ attempt' = attempt + 1
            /\ UNCHANGED <<df, pc, session, count1>>
       ELSE /\ pc' = "geocode"
            /\ UNCHANGED <<df, attempt, session, count1>>
    /\ UNCHANGED <<file, zipFile, zip_data, stored, run, zip_code_coordinates, idx,
                   processed_count, error_count, everFailed, sessionOpened,
                   deleteIssued, stored0, failedAt, last>>
    /\ UNCHANGED queryVars

\* Mutant of ReadCsv: the except clause of the latin-1 call goes straight to
\* the last-resort call
ReadCsvSkipsCp1252 ==
    /\ pc = "read"
    /\ tried' = Append(tried, attempt)
    /\ IF attempt = file.firstOk
       THEN /\ df' = file.rows
            /\ pc' = "geocode"
            /\ UNCHANGED <<attempt, session, count1>>
       ELSE IF attempt < 4
       THEN /\ attempt' = IF attempt = 2 THEN 4 ELSE attempt + 1
            /\ UNCHANGED <<df, pc, session, count1>>
       ELSE /\ Return(stored)
            /\ UNCHANGED <<df, attempt>>
    /\ UNCHANGED <<file, zipFile, zip_data, stored, run, zip_code_coordinates, idx,
                   processed_count, error_count, everFailed, sessionOpened,
                   deleteIssued, stored0, failedAt, last>>
    /\ UNCHANGED queryVars

\* the encodings of the four calls, in the order of the nested try blocks
ReadCsvEncodings == <<"utf-8", "latin-1", "cp1252", "utf-8">>

\* one pd.read_csv call of the nested try blocks
ReadCsv ==
    /\ pc = "read"
    /\ tried' = Append(tried, attempt)
    /\ IF attempt = file.firstOk
       THEN /\ df' = file.rows
            /\ pc' = "geocode"
            /\ UNCHANGED <<attempt, session, count1>>
       ELSE IF attempt < 4
       THEN /\ attempt' = attempt + 1
            /\ UNCHANGED <<df, pc, session, count1>>
       ELSE /\ Return(stored)
            /\ UNCHANGED <<df, attempt>>
    /\ UNCHANGED <<file, zipFile, zip_data, stored, run, zip_code_coordinates, idx,
                   processed_count, error_count, everFailed, sessionOpened,
                   deleteIssued, stored0, failedAt, last>>
    /\ UNCHANGED queryVars

\* the unique zips and the geocoding loop; the first geocode_zip_code call
\* loads the table
GeocodeZips ==
    /\ pc = "geocode"
    /\ zip_data' = IF df # <<>> /\ ~zip_data.loaded THEN LoadedZipData(zipFile) ELSE zip_data
    /\ zip_code_coordinates' = ZipCodeCoordinates(df, zip_data'.rows)
    /\ pc' = "connect"
    /\ UNCHANGED <<tried, file, zipFile, stored, session, run, attempt, df, idx, processed_count,
                   error_count, everFailed, sessionOpened, deleteIssued, stored0,
                   failedAt, last, count1>>
    /\ UNCHANGED queryVars

\* SessionLocal() and SELECT 1
Connect ==
    /\ pc = "connect"
    /\ sessionOpened' = TRUE
    /\ \/ /\ pc' = "clear"
          /\ UNCHANGED <<session, count1, everFailed, failedAt>>
       \/ /\ everFailed' = TRUE
          /\ failedAt' = 0
          /\ Return(stored)
    /\ UNCHANGED <<tried, file, zipFile, zip_data, stored, run, attempt, df, zip_code_coordinates,
                   idx, processed_count, error_count, deleteIssued, stored0, last>>
    /\ UNCHANGED queryVars

\* Mutant of ClearExisting: the delete is missing
ClearExistingNoDelete ==
    /\ pc = "clear"
    /\ deleteIssued' = TRUE
    /\ \/ /\ pc' = "rows"
          /\ UNCHANGED <<stored, session, count1, everFailed, failedAt>>
       \/ /\ everFailed' = TRUE
          /\ failedAt' = 0
          /\ Return(stored)
          /\ UNCHANGED stored
    /\ UNCHANGED <<tried, file, zipFile, zip_data, run, attempt, df, zip_code_coordinates, idx,
                   processed_count, error_count, sessionOpened, stored0, last>>
    /\ UNCHANGED queryVars

\* db.query(Provider).delete() and db.commit()
ClearExisting ==
    /\ pc = "clear"
    /\ deleteIssued' = TRUE
    /\ \/ /\ stored' = {}
          /\ pc' = "rows"
          /\ UNCHANGED <<session, count1, everFailed, failedAt>>
       \/ /\ everFailed' = TRUE
          /\ failedAt' = 0
          /\ Return(stored)
          /\ UNCHANGED stored
    /\ UNCHANGED <<tried, file, zipFile, zip_data, run, attempt, df, zip_code_coordinates, idx,
                   processed_count, error_count, sessionOpened, stored0, last>>
    /\ UNCHANGED queryVars

\* One iteration of "for index, row in df.iterrows()".  A row that fails a
\* conversion is counted in error_count.  A row that converts is added and
\* counted in processed_count; when the batch is due, db.commit() runs inside
\* the row's try block, so an exception it raises is caught by the row's
\* "except Exception" (error_count += 1; continue).  Once a flush has
\* failed the Session refuses every later commit until rollback() is called,
\* which the row handler does not do.
ProcessRow ==
    /\ pc = "rows"
    /\ idx < Len(df)
    /\ LET out == RowOutcome(df[idx + 1], run, idx + 1, zip_code_coordinates)
           due == BatchDue(processed_count + 1)
       IN  \/ /\ out.kind # "ok"
              /\ error_count' = error_count + 1
              /\ last' = [idx |-> idx + 1, kind |-> out.kind, dErr |-> 1, dProc |-> 0,
                          added |-> {}, commit |-> "none"]
              /\ UNCHANGED <<processed_count, session, stored, failedAt, everFailed>>
           \/ /\ out.kind = "ok"
              /\ ~due
              /\ session' = session \cup out.provider
              /\ processed_count' = processed_count + 1
              /\ last' = [idx |-> idx + 1, kind |-> "ok", dErr |-> 0, dProc |-> 1,
                          added |-> out.provider, commit |-> "none"]
              /\ UNCHANGED <<error_count, stored, failedAt, everFailed>>
           \/ /\ out.kind = "ok"
              /\ due
              /\ failedAt = -1
              /\ stored' = stored \cup session \cup out.provider
              /\ session' = {}
              /\ processed_count' = processed_count + 1
              /\ last' = [idx |-> idx + 1, kind |-> "ok", dErr |-> 0, dProc |-> 1,
                          added |-> out.provider, commit |-> "ok"]
              /\ UNCHANGED <<error_count, failedAt, everFailed>>
           \/ /\ out.kind = "ok"
              /\ due
              /\ session' = IF failedAt = -1 THEN {} ELSE session \cup out.provider
              /\ processed_count' = processed_count + 1
              /\ error_count' = error_count + 1
              /\ failedAt' = IF failedAt = -1 THEN idx + 1 ELSE failedAt
              /\ everFailed' = TRUE
              /\ last' = [idx |-> idx + 1, kind |-> "ok", dErr |-> 1, dProc |-> 1,
                          added |-> out.provider, commit |-> "fail"]
              /\ UNCHANGED stored
    /\ idx' = idx + 1
    /\ UNCHANGED <<tried, file, zipFile, zip_data, pc, run, attempt, df, zip_code_coordinates,
                   sessionOpened, deleteIssued, stored0, count1>>
    /\ UNCHANGED queryVars

\* the db.commit() after the loop, the two outer except clauses and finally
FinalCommit ==
    /\ pc = "rows"
    /\ idx = Len(df)
    /\ \/ /\ failedAt = -1
          /\ stored' = stored \cup session
          /\ Return(stored')
          /\ UNCHANGED <<failedAt, everFailed>>
       \/ /\ failedAt' = IF failedAt = -1 THEN idx ELSE failedAt
          /\ everFailed' = TRUE
          /\ Return(stored)
          /\ UNCHANGED stored
    /\ UNCHANGED <<tried, file, zipFile, zip_data, run, attempt, df, zip_code_coordinates, idx,
                   processed_count, error_count, sessionOpened, deleteIssued, stored0, last>>
    /\ UNCHANGED queryVars

NextEtl == StartRun \/ ReadCsv \/ GeocodeZips \/ Connect \/ ClearExisting
           \/ ProcessRow \/ FinalCommit

SpecEtl == InitEtl /\ [][NextEtl]_vars

---------------------------------------------------------------------------
(* Properties of the ingestion job, checked under SpecEtl *)

\* what the claims call a numeric field, said without the code's conversions
NumericText(s) == Strip(s) # <<>> /\ \A i \in 1..Len(Strip(s)) : Strip(s)[i] \in Digits
NumericCell(c) == c.k = "num"
NonNumericRow(row) ==
    \/ ~NumericText(row.zip)
    \/ ~NumericCell(row.drg)
    \/ ~NumericCell(row.cov) \/ ~NumericCell(row.tot) \/ ~NumericCell(row.med)

\* the rows of this process's runs that a stored or pending record was built from
NewRecords == {p \in stored \cup session : p.run >= 1}

\* C1: every row whose zip, DRG or one of the three monetary fields is
\* non-numeric is rejected: the iteration adds one to error_count, leaves
\* processed_count alone and adds no Provider, and no record built from such
\* a row is ever pending or stored.
C1_NonNumericRejected ==
    /\ (last.idx > 0 /\ NonNumericRow(df[last.idx]))
          => (last.dErr = 1 /\ last.dProc = 0 /\ last.added = {})
    /\ \A p \in NewRecords : ~NonNumericRow(file.rows[p.row])

\* C2: without a storage failure, a second (or later) run over the same file
\* leaves as many stored records as the first run left, all of them built by
\* the latest run.
C2_FullReplace ==
    (run >= 2 /\ pc = "idle" /\ ~everFailed)
        => /\ Cardinality(stored) = count1
           /\ (file.firstOk <= 4 => \A p \in stored : p.run = run)

C2_Witness ==
    /\ run >= 2 /\ pc = "idle" /\ ~everFailed
    /\ count1 = 2
    /\ Cardinality(stored) = 2
    /\ stored0 # {}

\* C3: once a storage exception has been raised in a run, no later row is
\* iterated, added or counted.
C3_StopsAtStorageException ==
    failedAt # -1 => (idx <= failedAt /\ last.idx <= failedAt)

\* C4: when the file is absent or every read_csv call raised, the run opens
\* no session, issues no delete and leaves the stored set as it was.
C4_DecodeFailureLeavesStorage ==
    (run >= 1 /\ (~file.exists \/ file.firstOk = 5))
        => /\ ~sessionOpened
           /\ ~deleteIssued
           /\ session = {}
           /\ stored = stored0

C4_Witness ==
    /\ run >= 1 /\ pc = "idle"
    /\ file.exists /\ file.firstOk = 5 /\ attempt = 4
    /\ stored # {}
    /\ stored = stored0

\* C5: every pending or stored record has latitude and longitude both None
\* or both not None.
C5_CoordinatesPaired ==
    \A p \in stored \cup session : (p.latitude = None) <=> (p.longitude = None)

\* a stored record of this process whose zip the table resolves to a zero
\* latitude and a non-zero longitude: it carries neither
C5_Witness ==
    \E p \in stored :
        /\ p.run >= 1
        /\ p.latitude = None /\ p.longitude = None
        /\ GeocodeZipCode(zip_data.rows, file.rows[p.row].zip)[1] = Num(0)
        /\ GeocodeZipCode(zip_data.rows, file.rows[p.row].zip)[2] = Num(-74)

\* the claim's case of C8: the row's zip, DRG and monetary fields convert and
\* the offline resolver has nothing for its normalized zip
PassesThree(row) ==
    /\ IntOfStr(Strip(row.zip)) # Raise
    /\ IntOfCell(row.drg) # Raise
    /\ Raise \notin {DecimalOfCell(row.cov), DecimalOfCell(row.tot), DecimalOfCell(row.med)}
OfflineMiss(row) ==
    GeocodeZipCode(zip_data.rows, Zfill(Strip(row.zip))) = <<None, None>>
AddedWithoutCoordinates(i) ==
    /\ last.kind = "ok"
    /\ last.dProc = 1
    /\ \E p \in last.added : p.row = i /\ p.latitude = None /\ p.longitude = None

\* C8 as stated: a row that passes zip, DRG and monetary validation and
\* misses the offline table is added without coordinates and is not counted
\* in error_count (storage exceptions aside).
C8_MissNeverRejects ==
    (last.idx > 0 /\ last.commit # "fail"
       /\ PassesThree(df[last.idx]) /\ OfflineMiss(df[last.idx]))
        => (AddedWithoutCoordinates(last.idx) /\ last.dErr = 0)

\* C8 amended: a row that passes zip, DRG, monetary and total_discharges
\* conversion and misses the offline table is added without coordinates and
\* counted as processed; error_count moves for it only when the batch commit
\* it triggers raises; and it is stored when the run returns without a
\* storage exception.
C8_MissNeverRejectsValidRow ==
    /\ (last.idx > 0 /\ PassesThree(df[last.idx]) /\ OfflineMiss(df[last.idx])
          /\ IntOfFloatCell(df[last.idx].dis) # Raise)
          => /\ AddedWithoutCoordinates(last.idx)
             /\ (last.dErr = 1 <=> last.commit = "fail")
    /\ (run >= 1 /\ pc = "idle" /\ failedAt = -1)
          => \A i \in 1..Len(df) :
               (PassesThree(df[i]) /\ OfflineMiss(df[i]) /\ IntOfFloatCell(df[i].dis) # Raise)
                 => \E p \in stored : /\ p.run = run /\ p.row = i
                                      /\ p.latitude = None /\ p.longitude = None

\* a run that returned with a stored record for a row of zip "501", which the
\* loaded table does not hold, beside a row that was rejected
C8_Witness ==
    /\ run >= 1 /\ pc = "idle" /\ failedAt = -1
    /\ zip_data.loaded /\ zip_data.rows # <<>>
    /\ error_count = 1
    /\ \E p \in stored : /\ p.run = run
                         /\ df[p.row].zip = Z501
                         /\ OfflineMiss(df[p.row])
                         /\ p.latitude = None /\ p.longitude = None

\* the run has a table / the run returned because no call gave one
TableRead == pc \in {"geocode", "connect", "clear", "rows"} \/ (pc = "idle" /\ sessionOpened)
ReadFailed == run >= 1 /\ pc = "idle" /\ file.exists /\ ~sessionOpened

\* C17: the read_csv calls of a run are calls 1, 2, 3, 4 of the nested try
\* blocks (utf-8, latin-1, cp1252, utf-8) in that order, each at most once;
\* a call is made only after every earlier one raised; the table of the run
\* is the one of the first call that did not raise; and the run gives up at
\* the read only after all four raised.
C17_ReaderOrder ==
    /\ Len(tried) <= Len(ReadCsvEncodings)
    /\ \A i \in 1..Len(tried) : tried[i] = i
    /\ \A i \in 1..(Len(tried) - 1) : tried[i] < file.firstOk
    /\ TableRead => (df = file.rows /\ tried # <<>> /\ tried[Len(tried)] = file.firstOk)
    /\ ReadFailed => (tried = <<1, 2, 3, 4>> /\ file.firstOk = 5 /\ df = <<>>)

\* a run whose utf-8 and latin-1 calls raised and whose cp1252 call gave the table
C17_Witness ==
    /\ TableRead /\ pc = "rows"
    /\ tried = <<1, 2, 3>>
    /\ ReadCsvEncodings[tried[3]] = "cp1252"
    /\ df = file.rows /\ df # <<>>

\* C20: in the row loop processed_count + error_count is the number of rows
\* iterated, and each iteration adds one to exactly one of the two.
C20_RowAccounting ==
    /\ processed_count + error_count = idx
    /\ last.idx > 0 => last.dProc + last.dErr = 1

\* the delete-all commit of the current run has succeeded
DeleteCommitted == run >= 1 /\ deleteIssued /\ failedAt # 0

\* the records built from the rows 1..k of the current run that convert
BuiltUpTo(k) ==
    UNION {RowOutcome(df[j], run, j, zip_code_coordinates).provider :
             j \in {i \in 1..k : RowOutcome(df[i], run, i, zip_code_coordinates).kind = "ok"}}

\* C21: after the delete-all commit of a run, for the rest of that run and
\* after it ends (success or storage failure), storage holds no record that
\* existed before the run: it holds exactly the records built from the
\* first k rows of the run, for some k (none, a prefix, or all).
C21_NoOldRecordAfterDelete ==
    DeleteCommitted
        => /\ stored \cap stored0 = {}
           /\ \A p \in stored : p.run = run
           /\ \E k \in 0..idx : stored = BuiltUpTo(k)

\* a run over a non-empty storage whose final commit raised after a batch
\* commit had stored a prefix
C21_Witness ==
    /\ DeleteCommitted
    /\ pc = "idle"
    /\ stored0 # {}
    /\ failedAt > 0
    /\ stored # {}
    /\ Cardinality(stored) < processed_count

\* the keys the geocoding loop has passed to geocode_zip_code in this run
OfflineKeys ==
    IF pc \in {"connect", "clear", "rows"} \/ (pc = "idle" /\ sessionOpened)
    THEN UniqueZipCodes(df) ELSE {}

\* the keys of the dict, and the keys the row loop has looked up in it
MapKeys == {e.zip : e \in zip_code_coordinates}
RowKeys ==
    {Zfill(Strip(df[i].zip)) :
        i \in {j \in 1..idx : RowOutcome(df[j], run, j, zip_code_coordinates).kind
                                  \in {"ok", "other"}}}

\* the location strings sent to the online resolver
QueryKeys == {geoCalls[i] : i \in 1..Len(geoCalls)}

FiveDigits(z) == Len(z) = 5 /\ \A i \in 1..Len(z) : z[i] \in Digits

\* C15: every zip used as a key (by the geocoding loop, in the dict, by the
\* row loop, by the online resolver) is a string of exactly 5 digits that
\* zero-filling leaves unchanged, and "501" zero-fills to "00501".
C15_ZipKeysFiveDigits ==
    /\ Zfill(Z501) = Z00501
    /\ \A z \in OfflineKeys \cup MapKeys \cup RowKeys \cup QueryKeys :
          FiveDigits(z) /\ Zfill(z) = z

---------------------------------------------------------------------------
(* app/geocoding.py: the online resolver and the radius test *)

Inf == [k |-> "inf", v |-> 0]

\* geocode_zip_code_nominatim(zip_code), given what geolocator.geocode does:
\* o.exc is the exception it raises ("none": it returns), o.found whether it
\* returns a location.  Mutant: the last "except Exception" clause is missing.
GeocodeZipCodeNominatimNoCatchAll(o) ==
    IF o.exc \in {"GeocoderTimedOut", "GeocoderUnavailable"}
    THEN [raised |-> FALSE, lat |-> None, lon |-> None]
    ELSE IF o.exc # "none"
    THEN [raised |-> TRUE, lat |-> None, lon |-> None]
    ELSE IF o.found
    THEN [raised |-> FALSE, lat |-> Num(o.latitude), lon |-> Num(o.longitude)]
    ELSE [raised |-> FALSE, lat |-> None, lon |-> None]

GeocodeZipCodeNominatim(o) ==
    IF o.exc \in {"GeocoderTimedOut", "GeocoderUnavailable"}
    THEN [raised |-> FALSE, lat |-> None, lon |-> None]
    ELSE IF o.exc # "none"
    THEN [raised |-> FALSE, lat |-> None, lon |-> None]
    ELSE IF o.found
    THEN [raised |-> FALSE, lat |-> Num(o.latitude), lon |-> Num(o.longitude)]
    ELSE [raised |-> FALSE, lat |-> None, lon |-> None]

\* r = 6371
EarthRadiusKm == 6371

Abs(n) == IF n < 0 THEN -n ELSE n

\* c * r for two points d whole degrees apart on one meridian, where the
\* haversine formula gives c = radians(d): 6371 * pi * d / 180, in whole km
\* (pi taken as 355/113)
ArcKm(d) == (EarthRadiusKm * 355 * d) \div (113 * 180)

\* calculate_distance: radians() of a value that is no number raises and the
\* except clause returns float('inf'); a NaN goes through sin, sqrt and asin
\* as NaN.  The model computes the formula for points of equal longitude
\* (dlon = 0), the only ones its inputs hold.
CalculateDistance(lat1, lon1, lat2, lon2) ==
    IF \E x \in {lat1, lon1, lat2, lon2} : x.k \notin {"num", "nan"} THEN Inf
    ELSE IF \E x \in {lat1, lon1, lat2, lon2} : x.k = "nan" THEN NaN
    ELSE CASE lon1.v = lon2.v -> Num(ArcKm(Abs(lat2.v - lat1.v)))

\* a <= b on floats: false when either is NaN; inf <= inf
FloatLe(a, b) ==
    /\ a.k # "nan" /\ b.k # "nan"
    /\ \/ b.k = "inf"
       \/ a.k = "num" /\ b.k = "num" /\ a.v <= b.v

\* Mutant of IsWithinRadius: distance < radius_km
IsWithinRadiusStrict(lat1, lon1, lat2, lon2, radius_km) ==
    LET distance == CalculateDistance(lat1, lon1, lat2, lon2)
    IN  FloatLe(distance, radius_km) /\ distance # radius_km

\* is_within_radius: distance <= radius_km
IsWithinRadius(lat1, lon1, lat2, lon2, radius_km) ==
    FloatLe(CalculateDistance(lat1, lon1, lat2, lon2), radius_km)

---------------------------------------------------------------------------
(* app/main.py: GET /providers *)

DigitChar(d) ==
    CASE d = 0 -> "0" [] d = 1 -> "1" [] d = 2 -> "2" [] d = 3 -> "3"
      [] d = 4 -> "4" [] d = 5 -> "5" [] d = 6 -> "6" [] d = 7 -> "7"
      [] d = 8 -> "8" [] OTHER -> "9"

\* str(n) of an int n >= 0
RECURSIVE StrOfInt(_)
StrOfInt(n) == IF n < 10 THEN <<DigitChar(n)>> ELSE Append(StrOfInt(n \div 10), DigitChar(n % 10))

\* sorted(providers, key=lambda p: p.average_total_payments): comparing a
\* Decimal NaN raises InvalidOperation, and two or more elements are compared
SortRaises(S) == Cardinality(S) >= 2 /\ \E p \in S : p.average_total_payments.k # "num"

RECURSIVE SortedByPayments(_)
SortedByPayments(S) ==
    IF S = {} THEN <<>>
    ELSE LET m == CHOOSE x \in S :
                    \A y \in S : x.average_total_payments.v <= y.average_total_payments.v
         IN  <<m>> \o SortedByPayments(S \ {m})

\* Mutant of WithinRadius: a provider without coordinates counts as a match
WithinRadiusKeepMissing(providers, zip_lat, zip_lon, radius_km) ==
    {p \in providers :
        \/ p.latitude = None \/ p.longitude = None
        \/ IsWithinRadius(zip_lat, zip_lon, p.latitude, p.longitude, radius_km)}

\* the providers the radius loop keeps
WithinRadius(providers, zip_lat, zip_lon, radius_km) ==
    {p \in providers :
        /\ ~(p.latitude = None \/ p.longitude = None)
        /\ IsWithinRadius(zip_lat, zip_lon, p.latitude, p.longitude, radius_km)}

\* Mutant of GetProvidersResponse: a zip that cannot be geocoded skips the
\* radius filter (as the ranker does) instead of raising HTTPException
GetProvidersResponseNoReject(db, drg, zip, radius_km, g) ==
    LET providers == {p \in db : drg = None \/ p.ms_drg_definition = drg.v}
        kept == IF zip # None /\ radius_km # None /\ g.lat # None /\ g.lon # None
                THEN WithinRadius(providers, g.lat, g.lon, radius_km)
                ELSE providers
    IN  IF zip # None /\ radius_km # None /\ g.raised
        THEN [status |-> 500, detail |-> None, body |-> <<>>]
        ELSE IF SortRaises(kept) THEN [status |-> 500, detail |-> None, body |-> <<>>]
        ELSE [status |-> 200, detail |-> None, body |-> SortedByPayments(kept)]

\* get_providers, given the stored rows and the geocoder's answer g (used
\* only when zip and radius_km are both given): the HTTP response.  An
\* exception that leaves the handler is a 500.
GetProvidersResponse(db, drg, zip, radius_km, g) ==
    LET providers == {p \in db : drg = None \/ p.ms_drg_definition = drg.v}
        kept == IF zip # None /\ radius_km # None
                THEN WithinRadius(providers, g.lat, g.lon, radius_km)
                ELSE providers
    IN  IF zip # None /\ radius_km # None /\ g.raised
        THEN [status |-> 500, detail |-> None, body |-> <<>>]
        ELSE IF zip # None /\ radius_km # None /\ (g.lat = None \/ g.lon = None)
        THEN [status |-> 400, detail |-> zip, body |-> <<>>]
        ELSE IF SortRaises(kept) THEN [status |-> 500, detail |-> None, body |-> <<>>]
        ELSE [status |-> 200, detail |-> None, body |-> SortedByPayments(kept)]

---------------------------------------------------------------------------
(* app/openai_service.py: get_relevant_providers *)

\* str.lower() on the letters the sample queries hold
Lower(c) == CASE c = "K" -> "k" [] c = "M" -> "m" [] OTHER -> c
LowerWord(w) == [i \in 1..Len(w) |-> Lower(w[i])]

\* query_lower.split()
QueryLowerWords(query) == [i \in 1..Len(query) |-> LowerWord(query[i])]

\* word.isdigit()
IsDigit(w) == w # <<>> /\ \A i \in 1..Len(w) : w[i] \in Digits

\* sub in text, for one word of the text (no keyword holds a blank)
Contains(w, sub) ==
    \E i \in 1..(Len(w) - Len(sub) + 1) : SubSeq(w, i, i + Len(sub) - 1) = sub
InQuery(words, sub) == \E i \in 1..Len(words) : Contains(words[i], sub)

SetMin(S) == CHOOSE x \in S : \A y \in S : x <= y

\* the first word that is a number of at most 3 digits, as an int
DrgFilter(query) ==
    LET words == QueryLowerWords(query)
        I == {i \in 1..Len(words) : IsDigit(words[i]) /\ Len(words[i]) <= 3}
    IN  IF I = {} THEN None ELSE Num(DigitsValue(words[SetMin(I)], 0))

\* the first word that is a number of 4 or 5 digits, as an int
ZipFilter(query) ==
    LET words == QueryLowerWords(query)
        I == {i \in 1..Len(words) : IsDigit(words[i]) /\ Len(words[i]) \in {4, 5}}
    IN  IF I = {} THEN None ELSE Num(DigitsValue(words[SetMin(I)], 0))

RadiusKeywords ==
    {<<"w", "i", "t", "h", "i", "n">>, <<"r", "a", "d", "i", "u", "s">>, <<"k", "m">>,
     <<"k", "i", "l", "o", "m", "e", "t", "e", "r", "s">>, <<"m", "i", "l", "e", "s">>}

RatingKeywords ==
    {<<"r", "a", "t", "i", "n", "g">>, <<"s", "t", "a", "r">>, <<"b", "e", "s", "t">>,
     <<"t", "o", "p">>}

\* radius_km = 40.0
DefaultRadiusKm == 40

\* limit: int = 10
DefaultLimit == 10

\* the radius: 40.0, or float(word) of the first word that is a number (of
\* any length) when the query holds a radius keyword
RadiusKm(query) ==
    LET words == QueryLowerWords(query)
        I == {i \in 1..Len(words) : IsDigit(words[i])}
    IN  IF I # {} /\ \E kw \in RadiusKeywords : InQuery(words, kw)
        THEN Num(DigitsValue(words[SetMin(I)], 0))
        ELSE Num(DefaultRadiusKm)

\* db.query(Provider)...all(): the rows in the order storage returns them,
\* here by ascending or descending row
RECURSIVE AllOf(_, _)
AllOf(S, order) ==
    IF S = {} THEN <<>>
    ELSE LET m == CHOOSE x \in S : \A y \in S :
                    IF order = "asc" THEN x.row <= y.row ELSE x.row >= y.row
         IN  <<m>> \o AllOf(S \ {m}, order)

\* the radius loop of the ranker: providers without coordinates are skipped
RadiusFiltered(providers, zip_lat, zip_lon, radius_km) ==
    SelectSeq(providers, LAMBDA p : p \in WithinRadius({p}, zip_lat, zip_lon, radius_km))

\* the sample providers' name, city and state
ProviderName(p) == <<"g", "e", "n", "e", "r", "a", "l">>
ProviderCity(p) == <<"n", "y", "c">>
ProviderState(p) == <<"n", "y">>

\* Mutant of StarRating: getattr(provider, "star_rating", 3)
StarRatingDefault(p) == IF "star_rating" \in DOMAIN p THEN Num(p.star_rating) ELSE Num(3)

\* provider.star_rating: class Provider declares no such column, so reading
\* the attribute of a loaded row raises AttributeError
StarRating(p) == IF "star_rating" \in DOMAIN p THEN Num(p.star_rating) ELSE Raise

\* the score of one candidate, in tenths (10 is 100, star_rating * 0.3 is
\* 3 * star_rating); Raise when reading star_rating raises
Score(p, query, drg_filter, zip_filter) ==
    LET words == QueryLowerWords(query)
        star == StarRating(p)
    IN  IF star = Raise THEN Raise
        ELSE Num((IF Truthy(drg_filter) /\ p.ms_drg_definition = drg_filter.v THEN 100 ELSE 0)
               + (IF Truthy(zip_filter) /\ p.provider_zip_code = zip_filter.v THEN 150 ELSE 0)
               + (IF InQuery(words, LowerWord(ProviderCity(p)))
                     \/ InQuery(words, LowerWord(ProviderState(p))) THEN 50 ELSE 0)
               + (IF \E i \in 1..Len(query) :
                        Contains(LowerWord(ProviderName(p)), LowerWord(query[i])) THEN 20 ELSE 0)
               + (IF \E kw \in RatingKeywords : InQuery(words, kw) THEN 3 * star.v ELSE 0)
               + star.v
               + (IF Truthy(zip_filter) THEN 200 ELSE 0))

\* (x[1], x[0].star_rating) of a scored candidate a against that of b
KeyGe(a, b) == a.score > b.score \/ (a.score = b.score /\ a.star >= b.star)

\* list.sort(key=..., reverse=True): descending, equal keys in their order
RECURSIVE SortDescending(_)
SortDescending(list) ==
    IF list = <<>> THEN <<>>
    ELSE LET I == {i \in 1..Len(list) : \A j \in 1..Len(list) : KeyGe(list[i], list[j])}
             i == SetMin(I)
         IN  <<list[i]>> \o SortDescending(SubSeq(list, 1, i - 1) \o SubSeq(list, i + 1, Len(list)))

Take(list, n) == SubSeq(list, 1, IF Len(list) < n THEN Len(list) ELSE n)

\* get_relevant_providers(query, limit) over the stored rows db, returned by
\* storage in the given order, with o what Nominatim does when it is asked
GetRelevantProvidersRun(db, order, query, limit, o) ==
    LET drg_filter == DrgFilter(query)
        zip_filter == ZipFilter(query)
        byDrg == IF Truthy(drg_filter)
                 THEN AllOf({p \in db : p.ms_drg_definition = drg_filter.v}, order)
                 ELSE AllOf(db, order)
        providers == IF byDrg = <<>> THEN AllOf(db, order) ELSE byDrg
        geocoded == providers # <<>> /\ Truthy(zip_filter)
        g == IF geocoded THEN GeocodeZipCodeNominatim(o)
             ELSE [raised |-> FALSE, lat |-> None, lon |-> None]
        filtered == geocoded /\ ~g.raised /\ Truthy(g.lat) /\ Truthy(g.lon)
        radius_km == IF filtered THEN RadiusKm(query) ELSE None
        candidates == IF filtered THEN RadiusFiltered(providers, g.lat, g.lon, radius_km)
                      ELSE providers
        scores == [i \in 1..Len(candidates) |->
                     Score(candidates[i], query, drg_filter, zip_filter)]
        caught == g.raised \/ \E i \in 1..Len(candidates) : scores[i] = Raise
        keyword_matches == [i \in 1..Len(candidates) |->
                              [provider |-> candidates[i], score |-> scores[i].v,
                               star |-> StarRating(candidates[i]).v]]
    IN  [called |-> TRUE, query |-> query, limit |-> limit, order |-> order,
         o |-> IF geocoded THEN o ELSE NoOutcome,
         drg_filter |-> drg_filter, zip_filter |-> zip_filter, radius_km |-> radius_km,
         geocoded |-> geocoded, filtered |-> filtered,
         scored |-> IF g.raised THEN {} ELSE {candidates[i] : i \in 1..Len(candidates)},
         caught |-> caught, raised |-> FALSE,
         result |-> IF caught THEN <<>>
                    ELSE LET sorted == SortDescending(keyword_matches)
                         IN  [i \in 1..Len(Take(sorted, limit)) |-> sorted[i].provider]]

---------------------------------------------------------------------------
(* The query path: requests against a stored set left by an ingestion *)

QProvider(i, drg, pay, lat, lon) ==
    [run |-> 1, row |-> i, provider_zip_code |-> 10001, ms_drg_definition |-> drg,
     total_discharges |-> 5, average_covered_charges |-> Num(100),
     average_total_payments |-> pay, average_medicare_payments |-> Num(80),
     latitude |-> lat, longitude |-> lon]

Q1 == QProvider(1, 470, Num(90), Num(40), Num(-74))
Q2 == QProvider(2, 470, Num(80), Num(41), Num(-74))
Q3 == QProvider(3, 291, Num(70), Num(42), Num(-74))
Q4 == QProvider(4, 470, Num(60), None, None)
Q5 == QProvider(5, 291, NaN, Num(40), Num(-74))

QueryStoredSets == {{}, {Q1, Q2, Q3, Q4}, {Q1, Q2, Q4, Q5}}

DrgParams == {None, Num(470)}
ZipParams == {None, Num(10001), Num(501)}
RadiusParams == {None, Num(110), Num(111)}

\* what geolocator.geocode can do on one call
Outcomes ==
    {[exc |-> e, found |-> FALSE, latitude |-> 0, longitude |-> 0] :
        e \in {"none", "GeocoderTimedOut", "GeocoderUnavailable", "ValueError"}}
    \cup {[exc |-> "none", found |-> TRUE, latitude |-> la, longitude |-> -74] : la \in {0, 40}}

FromArgs == {<<Num(40), Num(-74)>>, <<None, None>>}
PointArgs == {<<Num(40), Num(-74)>>, <<Num(41), Num(-74)>>, <<NaN, Num(-74)>>, <<None, None>>}
RadiusArgs == {Num(110), Num(111), Inf}

InitAfterRuns(n) ==
    /\ QueryIdle
    /\ file = [exists |-> FALSE, firstOk |-> 5, rows |-> <<>>]
    /\ zipFile = [exists |-> FALSE, rows |-> <<>>]
    /\ zip_data = [loaded |-> FALSE, rows |-> <<>>]
    /\ stored \in QueryStoredSets
    /\ session = {}
    /\ pc = "idle"
    /\ run = n
    /\ attempt = 1
    /\ df = <<>>
    /\ zip_code_coordinates = {}
    /\ idx = 0
    /\ processed_count = 0
    /\ error_count = 0
    /\ everFailed = FALSE
    /\ sessionOpened = FALSE
    /\ deleteIssued = FALSE
    /\ stored0 = stored
    /\ failedAt = -1
    /\ last = NoLast
    /\ count1 = -1
    /\ tried = <<>>

InitQuery == InitAfterRuns(0)

\* One GET /providers request.  With zip and radius_km both given the handler
\* calls geocode_zip_code_nominatim(str(zip).zfill(5)), which asks Nominatim
\* on every call; o is what Nominatim does this time.
GetProvidersCall ==
    \E drg \in DrgParams, zip \in ZipParams, radius_km \in RadiusParams :
      \E o \in IF zip # None /\ radius_km # None THEN Outcomes ELSE {NoOutcome} :
        LET both == zip # None /\ radius_km # None
            g == GeocodeZipCodeNominatim(o)
        IN  /\ both => Len(geoCalls) < MaxGeoCalls
            /\ req' = [drg |-> drg, zip |-> zip, radius_km |-> radius_km]
            /\ geo' = IF both
                      THEN [called |-> TRUE, zip |-> Zfill(StrOfInt(zip.v)), o |-> o,
                            raised |-> g.raised, lat |-> g.lat, lon |-> g.lon]
                      ELSE NoGeo
            /\ geoCalls' = IF both THEN Append(geoCalls, Zfill(StrOfInt(zip.v))) ELSE geoCalls
            /\ resp' = GetProvidersResponse(stored, drg, zip, radius_km, g)
            /\ UNCHANGED <<etlVars, radiusLog, rank, cacheVars>>

\* a request to a server that no ingestion run is modelled beside
GetProviders == GetProvidersCall /\ UNCHANGED seen

\* a direct call of is_within_radius
CallIsWithinRadius ==
    \E a \in FromArgs, b \in PointArgs, radius_km \in RadiusArgs :
        /\ radiusLog' = [called |-> TRUE, lat1 |-> a[1], lon1 |-> a[2],
                         lat2 |-> b[1], lon2 |-> b[2], radius_km |-> radius_km,
                         distance |-> CalculateDistance(a[1], a[2], b[1], b[2]),
                         result |-> IsWithinRadius(a[1], a[2], b[1], b[2], radius_km)]
        /\ UNCHANGED <<etlVars, req, geo, resp, geoCalls, rank, seen, cacheVars>>

NextQuery == GetProviders \/ CallIsWithinRadius

SpecQuery == InitQuery /\ [][NextQuery]_vars

\* the words of the sample queries
W470 == <<"4", "7", "0">>
W999 == <<"9", "9", "9">>
W111 == <<"1", "1", "1">>
W0 == <<"0">>
W10001 == <<"1", "0", "0", "0", "1">>
W0501 == <<"0", "5", "0", "1">>
W00000 == <<"0", "0", "0", "0", "0">>
Wkm == <<"k", "m">>
WKM == <<"K", "M">>
Wbest == <<"b", "e", "s", "t">>

\* the sample questions, split at blanks
QueryPool ==
    {<<Wbest>>, <<W470>>, <<W999>>, <<W10001>>, <<W470, W10001>>, <<W111, Wkm, W10001>>,
     <<W10001, WKM>>, <<W0, W00000>>, <<W0501>>}

Limits == {1, DefaultLimit}
Orders == {"asc", "desc"}

\* One get_relevant_providers call.  Nominatim is asked when some provider
\* is left after the DRG filter and the query holds a non-zero zip.
GetRelevantProvidersCall ==
    \E query \in QueryPool, limit \in Limits, order \in Orders :
      \E o \in IF stored # {} /\ Truthy(ZipFilter(query)) THEN Outcomes ELSE {NoOutcome} :
        \E r \in {GetRelevantProvidersRun(stored, order, query, limit, o)} :
            /\ r.geocoded => Len(geoCalls) < MaxGeoCalls
            /\ rank' = r
            /\ geoCalls' = IF r.geocoded
                           THEN Append(geoCalls, Zfill(StrOfInt(r.zip_filter.v)))
                           ELSE geoCalls
            /\ UNCHANGED <<etlVars, req, geo, resp, radiusLog, cacheVars>>

\* Mutant of ServerUp: requests are taken while the startup run is going on
ServerUpDuringStartup == run >= 1

\* main.py runs run_etl() in the startup event: the server takes requests
\* once the startup run (run 1) has returned
ServerUp == run >= 1 /\ (run >= 2 \/ pc = "idle")

\* a request served by the running server, the k-th at most, and what the
\* ingestion was doing when it was served
ServeGetProvidersUpTo(k) ==
    /\ ServerUp
    /\ seen.n < k
    /\ GetProvidersCall
    /\ seen' = [n |-> seen.n + 1, run |-> run, pc |-> pc, handler |-> "get_providers"]

ServeGetRelevantProvidersUpTo(k) ==
    /\ ServerUp
    /\ seen.n < k
    /\ GetRelevantProvidersCall
    /\ seen' = [n |-> seen.n + 1, run |-> run, pc |-> pc, handler |-> "ask"]

ServeGetProviders == ServeGetProvidersUpTo(MaxServed)

ServeGetRelevantProviders == ServeGetRelevantProvidersUpTo(MaxServed)

\* the server after its startup run, answering requests
InitRank == InitAfterRuns(1)

NextRank == ServeGetProviders \/ ServeGetRelevantProviders

SpecRank == InitRank /\ [][NextRank]_vars

---------------------------------------------------------------------------
(* Properties of the query path, checked under SpecQuery *)

\* the request filtered by zip and radius, and Nominatim gave no location
Ungeocodable == geo.called /\ (geo.o.exc # "none" \/ ~geo.o.found)

\* C6: a GET /providers request with zip and radius_km whose zip Nominatim
\* does not resolve is answered 400 with the zip in the detail, and with no
\* provider list.
C6_UngeocodableZipRejected ==
    (req.zip # None /\ req.radius_km # None)
        => /\ geo.called /\ geo.zip = Zfill(StrOfInt(req.zip.v))
           /\ Ungeocodable => (resp.status = 400 /\ resp.detail = req.zip /\ resp.body = <<>>)

C6_Witness ==
    /\ req.zip = Num(501) /\ req.radius_km = Num(111)
    /\ geo.zip = Z00501
    /\ geo.o.exc = "GeocoderTimedOut"
    /\ stored # {}
    /\ resp.status = 400

\* C7: geocode_zip_code_nominatim never raises; it returns (None, None) when
\* the Nominatim call raised or found nothing, and the location's coordinates
\* exactly when a location came back.
C7_NominatimNeverRaises ==
    geo.called
        => /\ ~geo.raised
           /\ (geo.o.exc = "none" /\ geo.o.found)
                 => (geo.lat = Num(geo.o.latitude) /\ geo.lon = Num(geo.o.longitude))
           /\ ~(geo.o.exc = "none" /\ geo.o.found)
                 => (geo.lat = None /\ geo.lon = None)

C7_Witness ==
    /\ geo.called /\ geo.o.exc = "ValueError"
    /\ ~geo.raised /\ geo.lat = None /\ geo.lon = None
    /\ resp.status = 400

\* C9: Nominatim is asked at most once for each zip.
C9_OneCallPerZip ==
    \A i, j \in 1..Len(geoCalls) : i # j => geoCalls[i] # geoCalls[j]

\* the providers a radius request chooses among, and the body as a set
Candidates ==
    {p \in stored : /\ req.drg = None \/ p.ms_drg_definition = req.drg.v
                    /\ p.latitude # None /\ p.longitude # None}
Body == {resp.body[i] : i \in 1..Len(resp.body)}

\* C10: is_within_radius is true exactly when the computed distance is at
\* most radius_km: a call whose distance computation failed (infinity) is
\* false for every finite radius, and a 200 answer to a radius request holds
\* a candidate exactly when its distance from the geocoded zip is at most
\* radius_km.
C10_RadiusInclusive ==
    /\ radiusLog.called
          => /\ radiusLog.result <=> FloatLe(radiusLog.distance, radiusLog.radius_km)
             /\ (radiusLog.distance = Inf /\ radiusLog.radius_km.k = "num") => ~radiusLog.result
    /\ (geo.called /\ resp.status = 200)
          => \A p \in Candidates :
               p \in Body <=> FloatLe(CalculateDistance(geo.lat, geo.lon, p.latitude, p.longitude),
                                      req.radius_km)

\* a request of radius 111 from (40, -74) that keeps the provider 111 km away
\* and drops the one 222 km away, and a direct call whose distance failed
C10_Witness ==
    /\ geo.called /\ resp.status = 200 /\ req.radius_km = Num(111)
    /\ geo.lat = Num(40)
    /\ Q2 \in Body /\ Q3 \in stored /\ Q3 \notin Body
    /\ CalculateDistance(geo.lat, geo.lon, Q2.latitude, Q2.longitude) = Num(111)
    /\ radiusLog.called /\ radiusLog.distance = Inf /\ ~radiusLog.result

---------------------------------------------------------------------------
(* The server beside its ingestion runs: run 1 is the run of startup_event, *)
(* a later run is run_etl.py started from a shell while the server is up;  *)
(* both work on the same table.                                             *)

ServeFiles == {[exists |-> TRUE, firstOk |-> 1, rows |-> <<GoodRow, GoodRow>>]}

ServeZipFiles ==
    {[exists |-> TRUE,
      rows |-> <<[postal |-> Z10001, latitude |-> Num(40), longitude |-> Num(-74)]>>]}

InitServe ==
    /\ QueryIdle
    /\ file \in ServeFiles
    /\ zipFile \in ServeZipFiles
    /\ zip_data = [loaded |-> FALSE, rows |-> <<>>]
    /\ stored \in StoredPool
    /\ session = {}
    /\ pc = "idle"
    /\ run = 0
    /\ attempt = 1
    /\ df = <<>>
    /\ zip_code_coordinates = {}
    /\ idx = 0
    /\ processed_count = 0
    /\ error_count = 0
    /\ everFailed = FALSE
    /\ sessionOpened = FALSE
    /\ deleteIssued = FALSE
    /\ stored0 = stored
    /\ failedAt = -1
    /\ last = NoLast
    /\ count1 = -1
    /\ tried = <<>>

ServeGetProvidersBesideRun == ServeGetProvidersUpTo(MaxServedBesideRun)

ServeGetRelevantProvidersBesideRun == ServeGetRelevantProvidersUpTo(MaxServedBesideRun)

NextServe == StartRun \/ ReadCsv \/ GeocodeZips \/ Connect \/ ClearExisting
             \/ ProcessRow \/ FinalCommit
             \/ ServeGetProvidersBesideRun \/ ServeGetRelevantProvidersBesideRun

SpecServe == InitServe /\ [][NextServe]_vars

\* C16 as stated: no served request finds an ingestion run between its
\* delete-all commit and its final commit.
C16_NoQueryDuringRun ==
    seen.n > 0 => seen.pc # "rows"

\* C16 amended: no request is served before the run of startup_event has
\* returned, so no request finds that run between its delete-all commit and
\* its final commit.
C16_NoQueryDuringStartupRun ==
    seen.n > 0 => /\ seen.run >= 1
                  /\ seen.run = 1 => seen.pc = "idle"

\* a request answered from the rows the startup run stored
C16_Witness ==
    /\ seen.n > 0 /\ seen.run = 1 /\ seen.pc = "idle"
    /\ seen.handler = "get_providers"
    /\ resp.status = 200 /\ resp.body # <<>>
    /\ \A p \in Body : p.run = 1

---------------------------------------------------------------------------
(* Ingestion of files that span more than two batches *)

\* rows enough for two batch commits and one more record
LongRows == 2 * BatchSize + 1

LongFiles ==
    {[exists |-> TRUE, firstOk |-> 1, rows |-> [i \in 1..n |-> GoodRow]] : n \in 0..LongRows}

InitLong ==
    /\ QueryIdle
    /\ file \in LongFiles
    /\ zipFile \in ServeZipFiles
    /\ zip_data = [loaded |-> FALSE, rows |-> <<>>]
    /\ stored \in StoredPool
    /\ session = {}
    /\ pc = "idle"
    /\ run = 0
    /\ attempt = 1
    /\ df = <<>>
    /\ zip_code_coordinates = {}
    /\ idx = 0
    /\ processed_count = 0
    /\ error_count = 0
    /\ everFailed = FALSE
    /\ sessionOpened = FALSE
    /\ deleteIssued = FALSE
    /\ stored0 = stored
    /\ failedAt = -1
    /\ last = NoLast
    /\ count1 = -1
    /\ tried = <<>>

SpecLong == InitLong /\ [][NextEtl]_vars

\* C18: the writer commits at every BatchSize-th added record and at the
\* end: at no point of a run are more than BatchSize added records
\* uncommitted, and a run that met no storage exception has committed every
\* record it built.
C18_BatchCommits ==
    /\ Cardinality(session) <= BatchSize
    /\ (pc = "rows" /\ last.idx > 0 /\ last.kind = "ok")
          => (last.commit # "none" <=> BatchDue(processed_count))
    /\ (run >= 1 /\ pc = "idle" /\ sessionOpened /\ failedAt = -1)
          => \A i \in 1..Len(df) :
               RowOutcome(df[i], run, i, zip_code_coordinates).kind = "ok"
                 => \E p \in stored : p.run = run /\ p.row = i

---------------------------------------------------------------------------
(* app/openai_service.py: get_provider_embedding, called by several threads *)

nonCacheVars == <<etlVars, req, geo, resp, geoCalls, radiusLog, rank, seen>>

\* what get_embedding can return for a text: the vector, or [] when the
\* client is missing or the request raised
Embeddings == {[k |-> "vector", v |-> 1], [k |-> "empty", v |-> 0]}

\* a thread calls get_provider_embedding(provider_text)
CacheCall ==
    \E t \in Threads, key \in CacheKeys :
        /\ thr[t].pc = "idle"
        /\ thr[t].calls < MaxCacheCalls
        /\ thr' = [thr EXCEPT ![t] = [pc |-> "want_check", key |-> key, val |-> NoEntry,
                                       calls |-> thr[t].calls + 1]]
        /\ UNCHANGED <<embedding_cache, cache_lock, cacheLog, nonCacheVars>>

\* with self.cache_lock: (either of the two blocks)
CacheAcquire ==
    \E t \in Threads :
        /\ thr[t].pc \in {"want_check", "want_insert"}
        /\ cache_lock = 0
        /\ cache_lock' = t
        /\ thr' = [thr EXCEPT ![t].pc = IF thr[t].pc = "want_check" THEN "check" ELSE "insert"]
        /\ UNCHANGED <<embedding_cache, cacheLog, nonCacheVars>>

\* if provider_text in self.embedding_cache: return it; the lock is released
\* on leaving the block either way
CacheCheck ==
    \E t \in Threads :
        /\ thr[t].pc = "check"
        /\ cache_lock = t
        /\ cache_lock' = 0
        /\ thr' = IF embedding_cache[thr[t].key] # NoEntry
                  THEN [thr EXCEPT ![t].pc = "idle", ![t].val = embedding_cache[thr[t].key]]
                  ELSE [thr EXCEPT ![t].pc = "compute"]
        /\ UNCHANGED <<embedding_cache, cacheLog, nonCacheVars>>

\* embedding = self.get_embedding(provider_text), outside the lock
CacheGetEmbedding ==
    \E t \in Threads, e \in Embeddings :
        /\ thr[t].pc = "compute"
        /\ thr' = [thr EXCEPT ![t].pc = "want_insert", ![t].val = e]
        /\ cacheLog' = [cacheLog EXCEPT ![thr[t].key].lookups = @ + 1]
        /\ UNCHANGED <<embedding_cache, cache_lock, nonCacheVars>>

\* self.embedding_cache[provider_text] = embedding, and the return
CacheInsert ==
    \E t \in Threads :
        /\ thr[t].pc = "insert"
        /\ cache_lock = t
        /\ embedding_cache' = [embedding_cache EXCEPT ![thr[t].key] = thr[t].val]
        /\ cacheLog' = [cacheLog EXCEPT
                          ![thr[t].key].writes = @ + 1,
                          ![thr[t].key].overwritten = @ \/ embedding_cache[thr[t].key] # NoEntry]
        /\ cache_lock' = 0
        /\ thr' = [thr EXCEPT ![t].pc = "idle"]
        /\ UNCHANGED nonCacheVars

InitCache == InitAfterRuns(1)

NextCache == CacheCall \/ CacheAcquire \/ CacheCheck \/ CacheGetEmbedding \/ CacheInsert

SpecCache == InitCache /\ [][NextCache]_vars

\* C19: the cache is read and written only by the thread that holds the
\* lock, get_embedding is called at most once for a key, and an entry, once
\* written, is never written again.
C19_CacheLookupOnce ==
    /\ \A t \in Threads : thr[t].pc \in {"check", "insert"} => cache_lock = t
    /\ \A k \in CacheKeys : /\ cacheLog[k].lookups <= 1
                             /\ cacheLog[k].writes <= 1
                             /\ ~cacheLog[k].overwritten

---------------------------------------------------------------------------
(* Properties of the served requests, checked under SpecRank *)

MissingCoordinates(p) == p.latitude = None \/ p.longitude = None
RankResult == {rank.result[i] : i \in 1..Len(rank.result)}

\* C11: a radius request never returns a provider whose latitude or
\* longitude is None and such a provider raises no error: GET /providers
\* with zip and radius_km answers 200 without it (400 when the zip is not
\* geocoded; 500 only over a payment that cannot be sorted), and the ranker,
\* given a zip, does not raise, returns no such provider and, when it
\* applies the radius, passes none on to scoring.
C11_MissingCoordinatesSkipped ==
    /\ (req.zip # None /\ req.radius_km # None)
          => /\ resp.status = 200 => \A p \in Body : ~MissingCoordinates(p)
             /\ resp.status = 500 => \E p \in stored : p.average_total_payments.k # "num"
    /\ (rank.called /\ Truthy(rank.zip_filter))
          => /\ ~rank.raised
             /\ \A p \in RankResult : ~MissingCoordinates(p)
             /\ rank.filtered => \A p \in rank.scored : ~MissingCoordinates(p)

\* a radius request and a ranker call over a stored set that holds a DRG 470
\* provider without coordinates: both kept a provider and dropped that one
C11_Witness ==
    /\ Q4 \in stored /\ MissingCoordinates(Q4)
    /\ req.zip # None /\ req.radius_km # None /\ resp.status = 200
    /\ Q1 \in Body /\ Q4 \notin Body
    /\ rank.called /\ rank.filtered /\ ~rank.raised
    /\ Q1 \in rank.scored /\ Q4 \notin rank.scored /\ Q4 \notin RankResult

\* the candidate has coordinates and lies within the radius of the point the
\* zip of the query was geocoded to
PassedRadius(p) ==
    /\ rank.filtered
    /\ ~MissingCoordinates(p)
    /\ IsWithinRadius(Num(rank.o.latitude), Num(rank.o.longitude),
                      p.latitude, p.longitude, rank.radius_km)

\* C12: when the query holds a zip, every candidate that enters scoring
\* (where "if zip_filter" grants the +20) or is returned has passed the
\* radius filter.
C12_BonusOnlyInsideRadius ==
    (rank.called /\ Truthy(rank.zip_filter))
        => \A p \in rank.scored \cup RankResult : PassedRadius(p)

\* the sort key of a surviving candidate
RankKey(p) ==
    [score |-> Score(p, rank.query, rank.drg_filter, rank.zip_filter).v,
     star |-> StarRating(p).v]

\* C13: get_relevant_providers returns, without raising, the candidates that
\* survived filtering in descending (score, star_rating) order cut to limit:
\* min(limit, survivors) distinct survivors, each key at least the next one's
\* and no omitted survivor's key strictly above a returned one's.
C13_TopLimitByScore ==
    rank.called
        => /\ ~rank.raised
           /\ Len(rank.result) = IF Cardinality(rank.scored) < rank.limit
                                 THEN Cardinality(rank.scored) ELSE rank.limit
           /\ RankResult \subseteq rank.scored
           /\ Cardinality(RankResult) = Len(rank.result)
           /\ \A i, j \in 1..Len(rank.result) :
                 i < j => KeyGe(RankKey(rank.result[i]), RankKey(rank.result[j]))
           /\ \A q \in rank.scored \ RankResult : \A r \in RankResult :
                 KeyGe(RankKey(r), RankKey(q))

DrgMatches == {p \in stored : p.ms_drg_definition = rank.drg_filter.v}

\* C22: for a ranker call with a non-zero DRG hint over a non-empty
\* storage: when no stored provider has that DRG (and the query names no
\* zip) the returned list is not empty and is drawn from the whole stored
\* collection; when some stored provider has it, every returned provider
\* has that DRG.
C22_DrgFallback ==
    (rank.called /\ Truthy(rank.drg_filter) /\ stored # {})
        => /\ (DrgMatches = {} /\ rank.zip_filter = None)
                 => (rank.result # <<>> /\ RankResult \subseteq stored)
           /\ DrgMatches # {}
                 => \A p \in RankResult : p.ms_drg_definition = rank.drg_filter.v

=============================================================================
